---- MODULE Spec2Model ----
(***************************************************************************)
(* A model of PalateAIPublic/AIMain/main.py: the start-up path (main,      *)
(* initialize_genai), the menu loop of food_ingredients_chat with its      *)
(* three options, the image pass analyze_image_with_gemini, and the        *)
(* interpreter's process exit.                                             *)
(*                                                                         *)
(* Text is a sequence of one-character strings, so that str.isspace,       *)
(* str.lower, truthiness and f-string concatenation are computed and not   *)
(* assumed. An optional value (None or a str) is a record [set, val].      *)
(***************************************************************************)
EXTENDS Integers, Sequences, FiniteSets, TLC

\* The number of menu turns one run of the model takes.
MaxTurns == 2

----------------------------------------------------------------------------
\* Text and Python's str operations

None == [set |-> FALSE, val |-> <<>>]

Some(s) == [set |-> TRUE, val |-> s]

\* bool(x) for x None or a str: None and "" are falsy.
Truthy(o) == o.set /\ Len(o.val) > 0

WhitespaceChars == {" ", "\t", "\n"}

\* str.isspace(): at least one character, and all of them whitespace.
IsSpace(s) == Len(s) > 0 /\ \A i \in 1..Len(s) : s[i] \in WhitespaceChars

LowerChar(c) ==
    CASE c = "Y" -> "y"
      [] c = "E" -> "e"
      [] c = "S" -> "s"
      [] c = "N" -> "n"
      [] c = "O" -> "o"
      [] OTHER -> c

\* str.lower()
Lower(s) == [i \in 1..Len(s) |-> LowerChar(s[i])]

Yes == <<"y", "e", "s">>

\* The test of lines 130, 187 and 237: s == "" or s.isspace()
IsBlankMutEmptyOnly(s) == s = <<>>

IsBlankMutSpaceOnly(s) == IsSpace(s)

IsBlank(s) == s = <<>> \/ IsSpace(s)

----------------------------------------------------------------------------
\* What the user may type

Names == { <<>>, <<" ">>, <<" ", "\t">>, <<"p">>, <<" ", "q">> }

Ingredients == { <<>>, <<"\t">>, <<"g">> }

Descriptions == { <<>>, <<"d">> }

ImagePaths == { <<>>, <<"i">> }

UseLastAnswers == { <<"y", "e", "s">>, <<"Y", "E", "S">>, <<"n", "o">>, <<>> }

MenuChoices == { <<"1">>, <<"2">>, <<"3">>, <<"4">>, <<>> }

\* response.text of the image pass
ImageTexts == { <<>>, <<"t">> }

----------------------------------------------------------------------------
\* The remote service

\* google.api_core.exceptions classes the loop names, and "Other" for any
\* exception class none of the handlers names.
FatalKinds == { "InvalidArgument", "PermissionDenied", "NotFound",
                "ResourceExhausted", "Unknown", "ServiceUnavailable" }

ErrorKinds == {"DeadlineExceeded"} \cup FatalKinds \cup {"Other"}

Outcomes == {"ok"} \cup ErrorKinds

\* The f-strings of lines 135, 192 and 247-252; the fixed text is one token.
IngredientsQuery(food) ==
    <<"What are the detailed and specific ingredients of ">> \o food
      \o <<"? Include any sub-ingredients and specific types of ingredients used.">>

MembershipQuery(dish, ingredient) ==
    <<"Does ">> \o dish \o <<" contain ">> \o ingredient
      \o <<"? Provide detailed information on how this ingredient is used in the dish if present.">>

AnalyzeQuery(food, description) ==
    <<"Analyze the food item '">> \o food \o <<"'. ">> \o description
      \o <<". Does it contain ... Provide the response as '1' for yes and '0' for no. Also, indicate ...">>

ImageQuery == <<"Analyze this image for food information.">>

----------------------------------------------------------------------------
\* The environment the process starts in

RequiredKeys == { "GEMINI_API_KEY", "GEMINI_MODEL", "SAFETY_SETTINGS",
                  "GENERATION_CONFIG" }

\* keys.json: absent, not JSON, JSON that is no object, or an object with some
\* keys; placeholder: GEMINI_API_KEY is "your gemini api key here".
Configs ==
    { [file |-> f, keys |-> {}, placeholder |-> FALSE] :
          f \in {"missing", "malformed", "nonobject"} }
    \cup
    { [file |-> "object", keys |-> k, placeholder |-> p] :
          k \in SUBSET RequiredKeys, p \in BOOLEAN }

\* args: len(sys.argv) - 1
Envs == { [args |-> a, config |-> c] :
              a \in {0, 1},
              c \in { x \in Configs :
                        x.placeholder => "GEMINI_API_KEY" \in x.keys } }

VARIABLES
    env,                    \* the command line and keys.json
    pc,                     \* "start", "menu" (blocked in input() at line 118), "exited"
    exitCode,               \* <<>> while running, <<status>> once exited
    exitReason,             \* what ended the process
    chat,                   \* the session of line 108: 0 before it exists, else its id
    sessions,               \* the number of model.start_chat calls so far
    requests,               \* the number of send_message calls so far
    history,                \* the queries the session of line 108 holds
    last_food_item,
    last_dish_description,
    menuShown,              \* how often the menu was printed
    turns,                  \* the loop iterations completed
    turn                    \* what the latest loop iteration did

vars == << env, pc, exitCode, exitReason, chat, sessions, requests, history,
           last_food_item, last_dish_description, menuShown, turns, turn >>

NoTurn ==
    [ option |-> "none", prompts |-> <<>>, answer |-> <<>>, food |-> <<>>,
      ingredient |-> <<>>,
      description |-> <<>>, image |-> <<>>, imagePass |-> "none",
      sent |-> <<>>, outcome |-> "none", rejected |-> FALSE ]

Init ==
    /\ env \in Envs
    /\ pc = "start"
    /\ exitCode = <<>>
    /\ exitReason = "none"
    /\ chat = 0
    /\ sessions = 0
    /\ requests = 0
    /\ history = <<>>
    /\ last_food_item = None
    /\ last_dish_description = None
    /\ menuShown = 0
    /\ turns = 0
    /\ turn = NoTurn

----------------------------------------------------------------------------
\* Start-up: main and initialize_genai

\* The first key of the order content[...] reads them in that is absent.
FirstMissingKey(keys) ==
    IF "GEMINI_API_KEY" \notin keys THEN "GEMINI_API_KEY"
    ELSE IF "GEMINI_MODEL" \notin keys THEN "GEMINI_MODEL"
    ELSE IF "SAFETY_SETTINGS" \notin keys THEN "SAFETY_SETTINGS"
    ELSE IF "GENERATION_CONFIG" \notin keys THEN "GENERATION_CONFIG"
    ELSE "none"

StartupFailureMutUncheckedSettings(e) ==
    IF e.args > 0 THEN "usage"
    ELSE IF e.config.file = "missing" THEN "FileNotFoundError"
    ELSE IF e.config.file = "malformed" THEN "JSONDecodeError"
    ELSE IF e.config.file = "nonobject" THEN "TypeError"
    ELSE IF "GEMINI_API_KEY" \notin e.config.keys THEN "KeyError"
    ELSE IF e.config.placeholder THEN "placeholder"
    ELSE IF "GEMINI_MODEL" \notin e.config.keys THEN "KeyError"
    ELSE "none"

\* Why start-up stops, or "none": line 301, then the try block of lines 20-51.
\* A TypeError (content is no dict) has no handler and leaves through the
\* interpreter.
StartupFailure(e) ==
    IF e.args > 0 THEN "usage"
    ELSE IF e.config.file = "missing" THEN "FileNotFoundError"
    ELSE IF e.config.file = "malformed" THEN "JSONDecodeError"
    ELSE IF e.config.file = "nonobject" THEN "TypeError"
    ELSE IF "GEMINI_API_KEY" \notin e.config.keys THEN "KeyError"
    ELSE IF e.config.placeholder THEN "placeholder"
    ELSE IF FirstMissingKey(e.config.keys) # "none" THEN "KeyError"
    ELSE "none"

Startup ==
    /\ pc = "start"
    /\ IF StartupFailure(env) # "none"
       THEN /\ pc' = "exited"
            /\ exitCode' = <<1>>
            /\ exitReason' = StartupFailure(env)
            /\ UNCHANGED << chat, sessions, menuShown >>
       ELSE /\ pc' = "menu"
            /\ chat' = sessions + 1
            /\ sessions' = sessions + 1
            /\ menuShown' = menuShown + 1
            /\ UNCHANGED << exitCode, exitReason >>
    /\ UNCHANGED << env, requests, history, last_food_item,
                    last_dish_description, turns, turn >>

\* KeyboardInterrupt, caught at line 310: sys.exit(0)
Interrupt ==
    /\ pc \in {"start", "menu"}
    /\ pc' = "exited"
    /\ exitCode' = <<0>>
    /\ exitReason' = "KeyboardInterrupt"
    /\ UNCHANGED << env, chat, sessions, requests, history, last_food_item,
                    last_dish_description, menuShown, turns, turn >>

\* input() at end of input raises EOFError, which nothing catches: the
\* interpreter prints the traceback and exits with status 1.
EndOfInput ==
    /\ pc = "menu"
    /\ pc' = "exited"
    /\ exitCode' = <<1>>
    /\ exitReason' = "EOFError"
    /\ UNCHANGED << env, chat, sessions, requests, history, last_food_item,
                    last_dish_description, menuShown, turns, turn >>

----------------------------------------------------------------------------
\* The except clauses after each chat.send_message

\* What the try statement of an option does with the call's outcome:
\* "print" (no exception), "continue" (back to the menu), "exit1"
\* (sys.exit(1)), or "uncaught" (no clause names the exception's class).
Handle1(out) ==
    IF out = "ok" THEN "print"
    ELSE IF out = "DeadlineExceeded" THEN "continue"
    ELSE IF out \in FatalKinds THEN "exit1"
    ELSE "uncaught"

Handle2MutUnknownContinues(out) ==
    IF out = "ok" THEN "print"
    ELSE IF out \in {"DeadlineExceeded", "Unknown"} THEN "continue"
    ELSE IF out \in FatalKinds THEN "exit1"
    ELSE "uncaught"

Handle2(out) ==
    IF out = "ok" THEN "print"
    ELSE IF out = "DeadlineExceeded" THEN "continue"
    ELSE IF out \in FatalKinds THEN "exit1"
    ELSE "uncaught"

Handle3(out) ==
    IF out = "ok" THEN "print"
    ELSE IF out = "DeadlineExceeded" THEN "continue"
    ELSE IF out \in FatalKinds THEN "exit1"
    ELSE "uncaught"

\* An exception that reaches the top of the script other than
\* KeyboardInterrupt ends the interpreter with a traceback and status 1;
\* sys.exit(1) ends it with status 1.
ExitOf(disposition) ==
    IF disposition \in {"print", "continue"} THEN <<>> ELSE <<1>>

ReasonOf(disposition) ==
    IF disposition \in {"print", "continue"} THEN "none"
    ELSE IF disposition = "exit1" THEN "fatal API error"
    ELSE "uncaught API error"

----------------------------------------------------------------------------
\* The effects of one option on what the loop remembers

LastFoodAfterMutEveryOption(option, out, food, old) ==
    IF out = "ok" THEN Some(food) ELSE old

LastFoodAfterMutBeforeRequest(option, out, food, old) ==
    IF option = "3" THEN Some(food) ELSE old

\* last_food_item after a request of `option` ended with `out`: line 256 is
\* its only assignment inside the loop, reached when send_message and
\* response.text of option 3 raised nothing.
LastFoodAfter(option, out, food, old) ==
    IF option = "3" /\ out = "ok" THEN Some(food) ELSE old

\* last_dish_description, likewise (line 257)
LastDescriptionAfter(option, out, description, old) ==
    IF option = "3" /\ out = "ok" THEN Some(description) ELSE old

HistoryAfterMutFreshSession(hist, query, out) ==
    IF out = "ok" THEN <<query>> ELSE <<>>

\* The history of `chat` after chat.send_message(query): the session of
\* line 108 receives the query of every option, and its ChatSession records
\* an exchange once the service has answered it; a call that raises records
\* nothing.
HistoryAfter(hist, query, out) ==
    IF out = "ok" THEN Append(hist, query) ELSE hist

\* The rest of a loop iteration that sent `query` on chat, common to the
\* three options.
Submit(option, handle, query, out, food, description, t, imageRequests, imageSessions) ==
    /\ history' = HistoryAfter(history, query, out)
    /\ requests' = requests + imageRequests + 1
    /\ sessions' = sessions + imageSessions
    /\ last_food_item' = LastFoodAfter(option, out, food, last_food_item)
    /\ last_dish_description' =
           LastDescriptionAfter(option, out, description, last_dish_description)
    /\ pc' = IF handle \in {"print", "continue"} THEN "menu" ELSE "exited"
    /\ exitCode' = ExitOf(handle)
    /\ exitReason' = ReasonOf(handle)
    /\ menuShown' = IF handle \in {"print", "continue"} THEN menuShown + 1 ELSE menuShown
    /\ turns' = turns + 1
    /\ turn' = [t EXCEPT !.outcome = out]
    /\ UNCHANGED << env, chat >>

\* `continue` at lines 132, 189 and 239, and the else branch of line 294:
\* nothing was sent.
BackToMenu(t) ==
    /\ turn' = t
    /\ turns' = turns + 1
    /\ menuShown' = menuShown + 1
    /\ UNCHANGED << env, pc, exitCode, exitReason, chat, sessions, requests,
                    history, last_food_item, last_dish_description >>

----------------------------------------------------------------------------
\* Option 1: get the ingredients of a food item (lines 120-173)

\* The loop is blocked in input() at line 118.
AtMenu == pc = "menu" /\ turns < MaxTurns

ReuseMutInverted(last, answer) == Truthy(last) /\ Lower(answer) # Yes

\* What was answered to "Use the last analyzed ...?", when it was asked.
Answered(last, answer) == IF Truthy(last) THEN answer ELSE <<>>

\* Lines 121-123 (and 176-178): the last item is offered and taken.
Reuse(last, answer) == Truthy(last) /\ Lower(answer) = Yes

\* Lines 124-128 (and 179-183): the name the query is built with.
NameUsed(last, answer, typed) ==
    IF Reuse(last, answer) THEN last.val ELSE typed

NamePrompts(last, answer, prompt) ==
    (IF Truthy(last) THEN <<"use_last">> ELSE <<>>)
      \o (IF Reuse(last, answer) THEN <<>> ELSE <<prompt>>)

Option1(answer, typed, out) ==
    LET food == NameUsed(last_food_item, answer, typed)
        query == IngredientsQuery(food)
        t == [ NoTurn EXCEPT
                 !.option = "1",
                 !.prompts = <<"menu">> \o NamePrompts(last_food_item, answer, "food"),
                 !.answer = Answered(last_food_item, answer),
                 !.food = food ]
    IN  /\ AtMenu
        /\ IF IsBlank(food)
           THEN BackToMenu([t EXCEPT !.rejected = TRUE])
           ELSE Submit("1", Handle1(out), query, out, food, <<>>,
                       [t EXCEPT !.sent = << [session |-> chat, query |-> query] >>],
                       0, 0)

\* Option 2: check whether an ingredient is in a dish (lines 175-230)
Option2(answer, typed, ingredient, out) ==
    LET dish == NameUsed(last_food_item, answer, typed)
        query == MembershipQuery(dish, ingredient)
        t == [ NoTurn EXCEPT
                 !.option = "2",
                 !.prompts = <<"menu">> \o NamePrompts(last_food_item, answer, "dish")
                               \o <<"ingredient">>,
                 !.answer = Answered(last_food_item, answer),
                 !.food = dish,
                 !.ingredient = ingredient ]
    IN  /\ AtMenu
        /\ IF IsBlank(dish) \/ IsBlank(ingredient)
           THEN BackToMenu([t EXCEPT !.rejected = TRUE])
           ELSE Submit("2", Handle2(out), query, out, dish, <<>>,
                       [t EXCEPT !.sent = << [session |-> chat, query |-> query] >>],
                       0, 0)

----------------------------------------------------------------------------
\* The image pass: analyze_image_with_gemini (lines 83-102)

\* What a call may meet: open() raises FileNotFoundError, open() or read()
\* raises another exception, the call on the fresh session raises, or the
\* service answers with a text.
ImageResults ==
    { [kind |-> k, text |-> <<>>] : k \in {"nofile", "openerror", "remoteerror"} }
    \cup { [kind |-> "text", text |-> x] : x \in ImageTexts }

NoImage == [kind |-> "none", text |-> <<>>]

ImageReturnMutErrorAsText(img) ==
    IF img.kind = "text" THEN Some(img.text)
    ELSE IF img.kind = "none" THEN None
    ELSE Some(<<"e">>)

\* The value the function returns: response.text, or None from either
\* except clause.
ImageReturn(img) == IF img.kind = "text" THEN Some(img.text) ELSE None

\* model.start_chat(history=[]) at line 91 runs once the file was read.
ImageSessions(img) == IF img.kind \in {"remoteerror", "text"} THEN 1 ELSE 0

\* ... and send_message on it
ImageRequests(img) == IF img.kind \in {"remoteerror", "text"} THEN 1 ELSE 0

\* Lines 241-244: the description the main query is built with.
FullDescription(description, image, img) ==
    IF Len(image) > 0 /\ Truthy(ImageReturn(img))
    THEN description \o <<" ">> \o ImageReturn(img).val
    ELSE description

\* Option 3: analyze the properties of a food item (lines 232-292)
Option3(food, description, image, result, out) ==
    LET img == IF Len(image) > 0 THEN result ELSE NoImage
        full == FullDescription(description, image, img)
        query == AnalyzeQuery(food, full)
        imageSent == IF ImageRequests(img) > 0
                     THEN << [session |-> sessions + 1, query |-> ImageQuery] >>
                     ELSE <<>>
        t == [ NoTurn EXCEPT
                 !.option = "3",
                 !.prompts = <<"menu", "food", "description", "image">>,
                 !.food = food,
                 !.description = description,
                 !.image = image ]
    IN  /\ AtMenu
        /\ IF IsBlank(food)
           THEN BackToMenu([t EXCEPT !.rejected = TRUE])
           ELSE Submit("3", Handle3(out), query, out, food, full,
                       [t EXCEPT !.imagePass = img.kind,
                                 !.sent = imageSent \o
                                     << [session |-> chat, query |-> query] >>],
                       ImageRequests(img), ImageSessions(img))

\* Any other answer to "Choose an option" (line 294)
InvalidOption(choice) ==
    /\ AtMenu
    /\ choice \notin { <<"1">>, <<"2">>, <<"3">> }
    /\ BackToMenu([NoTurn EXCEPT !.option = "other", !.prompts = <<"menu">>])

----------------------------------------------------------------------------
\* What each input() and each remote call of an iteration can yield: a
\* prompt that is not shown reads nothing, and a call that is not made has
\* no outcome.
AnswersRead(last) == IF Truthy(last) THEN UseLastAnswers ELSE { <<>> }

NamesRead(last, answer) == IF Reuse(last, answer) THEN { <<>> } ELSE Names

OutcomesOf(rejected) == IF rejected THEN {"ok"} ELSE Outcomes

ImageResultsOf(food, image) ==
    IF IsBlank(food) \/ Len(image) = 0 THEN {NoImage} ELSE ImageResults

Next ==
    \/ Startup
    \/ Interrupt
    \/ EndOfInput
    \/ \E answer \in AnswersRead(last_food_item) :
         \E typed \in NamesRead(last_food_item, answer) :
           \E out \in OutcomesOf(IsBlank(NameUsed(last_food_item, answer, typed))) :
             Option1(answer, typed, out)
    \/ \E answer \in AnswersRead(last_food_item), ingredient \in Ingredients :
         \E typed \in NamesRead(last_food_item, answer) :
           \E out \in OutcomesOf(IsBlank(NameUsed(last_food_item, answer, typed))
                                   \/ IsBlank(ingredient)) :
             Option2(answer, typed, ingredient, out)
    \/ \E food \in Names, description \in Descriptions, image \in ImagePaths :
         \E result \in ImageResultsOf(food, image), out \in OutcomesOf(IsBlank(food)) :
           Option3(food, description, image, result, out)
    \/ \E choice \in MenuChoices : InvalidOption(choice)

Spec == Init /\ [][Next]_vars

----------------------------------------------------------------------------
\* Vocabulary of the properties

\* A name that is empty or consists of whitespace alone.
EmptyOrWhitespace(s) == \A i \in 1..Len(s) : s[i] \in {" ", "\t", "\n"}

\* This step is a loop iteration that took option o.
TookOption(o) == turns' = turns + 1 /\ turn'.option = o

\* The request the latest iteration sent on the main session.
MainRequest(t) == t.sent[Len(t.sent)]

IsPrefix(a, b) == Len(a) <= Len(b) /\ SubSeq(b, 1, Len(a)) = a

\* The queries of a history that option 3 built.
AnalyzeQueries(h) == SelectSeq(h, LAMBDA q : q[1] = "Analyze the food item '")

----------------------------------------------------------------------------
\* C1: in each of the three options, a DeadlineExceeded from
\* chat.send_message puts the loop back at the menu with the process still
\* running, and every other exception kind from it ends the process with
\* status 1.
C1_TimeoutReturnsOthersExit ==
    [][ \A o \in {"1", "2", "3"} :
          (TookOption(o) /\ turn'.sent # <<>>) =>
             /\ turn'.outcome = "DeadlineExceeded" =>
                    pc' = "menu" /\ exitCode' = <<>>
             /\ turn'.outcome \in ErrorKinds \ {"DeadlineExceeded"} =>
                    pc' = "exited" /\ exitCode' = <<1>> ]_vars

C1_Witness ==
    /\ turn.option = "2"
    /\ turn.outcome = "DeadlineExceeded"
    /\ pc = "menu"
    /\ turns = 2

\* C2: a successful option 3 sets last_food_item to the food name of that
\* call, and no other step changes it (a timeout or a fatal error of option 3
\* included); so last_food_item is the food name of the latest analyze query
\* the service answered, and None when there is none.
C2_LastFoodIsLastAnswered ==
    /\ [][ IF TookOption("3") /\ turn'.outcome = "ok"
           THEN last_food_item' = Some(turn'.food)
           ELSE last_food_item' = last_food_item ]_vars
    /\ [] LET done == AnalyzeQueries(history)
          IN  IF done = <<>>
              THEN last_food_item = None
              ELSE /\ last_food_item.set /\ last_dish_description.set
                   /\ done[Len(done)] = AnalyzeQuery(last_food_item.val,
                                                     last_dish_description.val)

C2_Witness ==
    /\ turn.option = "3"
    /\ turn.outcome = "DeadlineExceeded"
    /\ turn.food = <<" ", "q">>
    /\ last_food_item = Some(<<"p">>)
    /\ pc = "menu"

\* C3: an empty or whitespace-only food, dish or ingredient name in options
\* 1, 2 and 3 sends the loop back to the menu with no request sent (neither
\* the main query nor the image pass) and last_food_item as it was.
C3_BlankInputSendsNothing ==
    [][ \A o \in {"1", "2", "3"} :
          ( /\ TookOption(o)
            /\ \/ EmptyOrWhitespace(turn'.food)
               \/ o = "2" /\ EmptyOrWhitespace(turn'.ingredient) ) =>
             /\ pc' = "menu"
             /\ turn'.rejected
             /\ turn'.sent = <<>>
             /\ requests' = requests
             /\ sessions' = sessions
             /\ history' = history
             /\ last_food_item' = last_food_item ]_vars

C3_Witness ==
    /\ turn.option = "3"
    /\ turn.food = <<" ", "\t">>
    /\ turn.image = <<"i">>
    /\ turn.rejected
    /\ requests = 0
    /\ pc = "menu"

\* C4: with last_food_item set to F, option 1 answered "yes" submits the
\* ingredients query built with F and does not prompt for a food name; with
\* last_food_item unset, option 1 does not ask to reuse and prompts for the
\* food name.
C4_ReuseBuildsQueryWithLast ==
    [][ TookOption("1") =>
          /\ (last_food_item.set /\ turn'.answer = <<"y", "e", "s">>) =>
                /\ turn'.prompts = <<"menu", "use_last">>
                /\ turn'.sent = << [ session |-> chat,
                                     query |-> IngredientsQuery(last_food_item.val) ] >>
                /\ requests' = requests + 1
          /\ ~ last_food_item.set =>
                turn'.prompts = <<"menu", "food">> ]_vars

C4_Witness ==
    /\ turn.option = "1"
    /\ turn.answer = <<"y", "e", "s">>
    /\ last_food_item = Some(<<"p">>)
    /\ turn.sent = << [session |-> chat, query |-> IngredientsQuery(<<"p">>)] >>
    /\ turn.outcome = "ok"

\* C5: when the image pass of option 3 fails (no such file, another error
\* reading it, or an error of the remote image call), the main query is
\* built with the description as typed and is submitted on the main session;
\* the process goes on as the outcome of that main query decides.
C5_ImageFailureIsLocal ==
    [][ ( /\ TookOption("3")
          /\ turn'.imagePass \in {"nofile", "openerror", "remoteerror"} ) =>
             /\ turn'.sent # <<>>
             /\ MainRequest(turn') =
                    [ session |-> chat,
                      query |-> AnalyzeQuery(turn'.food, turn'.description) ]
             /\ turn'.outcome \in {"ok", "DeadlineExceeded"} =>
                    pc' = "menu" /\ exitCode' = <<>>
             /\ turn'.outcome = "ok" =>
                    /\ history' = Append(history,
                                     AnalyzeQuery(turn'.food, turn'.description))
                    /\ last_dish_description' = Some(turn'.description) ]_vars

C5_Witness ==
    /\ turn.option = "3"
    /\ turn.imagePass = "nofile"
    /\ turn.description = <<"d">>
    /\ turn.outcome = "ok"
    /\ last_dish_description = Some(<<"d">>)
    /\ pc = "menu"

\* A start-up that must fail: an argument on the command line, no keys.json,
\* a keys.json that is not JSON, or one that lacks a required key.
MustFailAtStartup(e) ==
    \/ e.args > 0
    \/ e.config.file \in {"missing", "malformed"}
    \/ e.config.file = "object" /\ ~ (RequiredKeys \subseteq e.config.keys)

\* C6: every such start-up, unless interrupted first, ends the process with
\* status 1 before the session exists, before the menu is printed and before
\* any request is sent.
C6_StartupFailureExitsFirst ==
    (MustFailAtStartup(env) /\ pc # "start" /\ exitReason # "KeyboardInterrupt") =>
        /\ pc = "exited"
        /\ exitCode = <<1>>
        /\ chat = 0
        /\ sessions = 0
        /\ menuShown = 0
        /\ requests = 0
        /\ turns = 0

C6_Witness ==
    /\ pc = "exited"
    /\ exitCode = <<1>>
    /\ exitReason = "KeyError"
    /\ env.args = 0
    /\ env.config.keys = RequiredKeys \ {"GENERATION_CONFIG"}
    /\ chat = 0

\* C7: once the menu was shown, the process ends only by an interrupt, with
\* status 0, or by an API error that is not a timeout, with status 1.
C7_OnlyInterruptOrApiErrorLeaves ==
    (pc = "exited" /\ menuShown > 0) =>
        \/ exitReason = "KeyboardInterrupt" /\ exitCode = <<0>>
        \/ exitReason \in {"fatal API error", "uncaught API error"} /\ exitCode = <<1>>

\* C8: options 1 and 2 leave last_food_item and last_dish_description as
\* they were, whatever was typed and whatever the request's outcome.
C8_Options12KeepLast ==
    [][ (TookOption("1") \/ TookOption("2")) =>
           /\ last_food_item' = last_food_item
           /\ last_dish_description' = last_dish_description ]_vars

C8_Witness ==
    /\ turn.option = "1"
    /\ turn.outcome = "ok"
    /\ turn.food = <<" ", "q">>
    /\ last_food_item = Some(<<"p">>)
    /\ last_dish_description = Some(<<"d">>)
    /\ pc = "menu"

C10_LastFoodNeverBlank ==
    /\ last_food_item.set => ~ EmptyOrWhitespace(last_food_item.val)
    /\ ~ last_food_item.set => last_food_item = None
    /\ ( /\ turn.option \in {"1", "2"}
         /\ Len(turn.prompts) > 1 /\ turn.prompts[2] = "use_last"
         /\ "food" \notin { turn.prompts[i] : i \in 1..Len(turn.prompts) }
         /\ "dish" \notin { turn.prompts[i] : i \in 1..Len(turn.prompts) } ) =>
            /\ ~ EmptyOrWhitespace(turn.food)
            /\ turn.option = "1" => ~ turn.rejected

C10_Witness ==
    /\ last_food_item = Some(<<" ", "q">>)
    /\ turn.option = "1"
    /\ turn.prompts = <<"menu", "use_last">>
    /\ turn.food = <<" ", "q">>
    /\ turn.outcome = "ok"

====
